---------------------------- MODULE Spec2Model ----------------------------
(***************************************************************************)
(* A model of the hash-chained block store of BlockChain_Backup and its    *)
(* three specialisations (file, access and index chain).  The repository   *)
(* holds two variants of the same classes: src/BlockChainBackup.py (the    *)
(* command-line program, lenient load) and src/main.py (the GUI program,   *)
(* strict load).  The variable `variant` says which of the two is running. *)
(*                                                                         *)
(* Every method is an operator from a value w of the program's state (the  *)
(* objects, the storage directories, the clock) to the value after the     *)
(* call; w.exc names the exception the call raised ("" when none) and      *)
(* w.val is what it returned.  The actions apply them to the variables.    *)
(***************************************************************************)
EXTENDS Integers, Sequences, FiniteSets, TLC

VARIABLES
    variant,   \* "cli" = src/BlockChainBackup.py, "gui" = src/main.py
    up,        \* TRUE when the three chain objects have been constructed
    fb,        \* the FileBlockchain object
    ab,        \* the AccessBlockchain object
    ib,        \* the IndexBlockchain object
    ob,        \* the FileBlockchain object of a second process on the same storage
    search,    \* where the process is inside the loop of proof_of_work
    fdir,      \* directory file_blockchain:   block file name -> pickled block
    adir,      \* directory access_blockchain: block file name -> pickled block
    idir,      \* directory index_blockchain:  block file name -> pickled block
    afile,     \* access_blockchain/<name>_access_chain.pkl: <<>> or <<chain>>
    now,       \* the clock read by time.time()
    ops,       \* number of operations performed so far
    tampered,  \* the block files of file_blockchain modified out-of-band
    ret        \* the last operation, its arguments and what it returned

vars == <<variant, up, fb, ab, ib, ob, search, fdir, adir, idir, afile, now, ops, tampered,
          ret>>

-----------------------------------------------------------------------------
(* Bounds and input sets *)

\* state-changing operations performed in one behaviour
MaxOps == 2
\* the last proofs handed to proof_of_work on its own
MaxProof == 120
\* length of the chains handed to verify_chain_integrity on its own
MaxLen == 3
\* the candidate up to which the loop of proof_of_work is followed
MaxCandidate == 10
\* put_file calls of the earlier sessions that left a long chain on disk
PriorLen == 10

Variants == {"cli", "gui"}
Users == {"alice", "bob"}
Secrets == {"p", "q"}
\* "f.txt", "./f.txt", "d/f.txt" as lists of path components
Paths == {<<"f.txt">>, <<".", "f.txt">>, <<"d", "f.txt">>}
\* b"" and b"hi"
Contents == {<<>>, <<104, 105>>}
Names == {"default", "b", "c"}
Dates == {"d1"}

FILE_DIR == "file_blockchain"
ACCESS_DIR == "access_blockchain"
INDEX_DIR == "index_blockchain"
DEFAULT_NAME == "default"

\* what a call gave back: None, a value, or an exception
None == [kind |-> "None"]
Val(x) == [kind |-> "value", v |-> x]
Raise(e) == [kind |-> "raise", exc |-> e]

-----------------------------------------------------------------------------
(* Library functions used by the code *)

Last(s) == s[Len(s)]

RECURSIVE Digits(_)
\* str(n) for n >= 0: the decimal digits of n
Digits(n) == IF n < 10 THEN <<n>> ELSE Digits(n \div 10) \o <<n % 10>>

\* the characters of the formatted decimal, as ASCII codes
DigitChars(n) == [i \in 1..Len(Digits(n)) |-> 48 + Digits(n)[i]]

RECURSIVE StrLess(_, _)
\* Python's < on strings (lists of character codes)
StrLess(a, b) ==
    IF b = <<>> THEN FALSE
    ELSE IF a = <<>> THEN TRUE
    ELSE IF a[1] # b[1] THEN a[1] < b[1]
    ELSE StrLess(Tail(a), Tail(b))

\* hashlib.sha256(x).hexdigest(): collision-free, so modelled as injective
sha256(x) == <<"sha256", x>>

\* stand-in for "the first four hex characters of sha256(guess) are zero":
\* a deterministic mix of the characters of the guess, zero for admission
RECURSIVE Mix(_, _)
Mix(h, s) == IF s = <<>> THEN h ELSE Mix((h * 3 + s[1] + 1) % 11, Tail(s))
ZeroPrefix(guess) == Mix(0, guess) = 0

\* bytes.hex(): two hex digits per byte
RECURSIVE hex(_)
hex(bytes) ==
    IF bytes = <<>> THEN <<>>
    ELSE <<bytes[1] \div 16, bytes[1] % 16>> \o hex(Tail(bytes))

\* bytes.fromhex()
RECURSIVE fromhex(_)
fromhex(h) ==
    IF Len(h) < 2 THEN <<>>
    ELSE <<h[1] * 16 + h[2]>> \o fromhex(Tail(Tail(h)))

\* os.path.relpath(p, start=os.getcwd()) for a relative p below the cwd
relpath(p) == SelectSeq(p, LAMBDA c : c # ".")

\* os.path.basename
basename(p) == <<Last(p)>>

\* os.path.join(storage_dir, block_file) for relative paths
join(dir, path) == <<dir>> \o path


-----------------------------------------------------------------------------
(* class Block *)

\* prev_hash of the genesis block: the string '0', written as a one-element
\* list so that it can be compared with a digest
GENESIS_PREV == <<"0">>

Block(index, proof_no, prev_hash, data, timestamp) ==
    [index |-> index, proof_no |-> proof_no, prev_hash |-> prev_hash,
     data |-> data, timestamp |-> timestamp]

calculate_hash(b) ==
    sha256(<<b.index, b.proof_no, b.prev_hash, b.data, b.timestamp>>)

-----------------------------------------------------------------------------
(* class Blockchain: admission *)

verifying_proof(last_proof, proof) ==
    ZeroPrefix(DigitChars(last_proof) \o DigitChars(proof))

RECURSIVE proof_search_swapped(_, _)
\* a search that hands the two proofs to verifying_proof the other way round
proof_search_swapped(proof_no, last_proof) ==
    IF verifying_proof(last_proof, proof_no) THEN proof_no
    ELSE proof_search_swapped(proof_no + 1, last_proof)

RECURSIVE proof_search(_, _)
proof_search(proof_no, last_proof) ==
    IF verifying_proof(proof_no, last_proof) THEN proof_no
    ELSE proof_search(proof_no + 1, last_proof)

proof_of_work(last_proof) == proof_search(0, last_proof)

\* no call of proof_of_work is under way
Idle == [pc |-> "idle", caller |-> "none", last_proof |-> 0, proof_no |-> 0]

\* proof_of_work entered by `caller`: proof_no = 0
enter_search(caller, last_proof) ==
    [pc |-> "loop", caller |-> caller, last_proof |-> last_proof, proof_no |-> 0]

\* a loop that gives up half-way and returns the candidate it is at
search_step_giving_up(s) ==
    IF verifying_proof(s.proof_no, s.last_proof) \/ s.proof_no >= MaxCandidate \div 2
    THEN [s EXCEPT !.pc = "found"]
    ELSE [s EXCEPT !.proof_no = @ + 1]

\* one evaluation of the while condition of proof_of_work, and the loop body
\* or the way out to `return proof_no`
search_step(s) ==
    IF verifying_proof(s.proof_no, s.last_proof)
    THEN [s EXCEPT !.pc = "found"]
    ELSE [s EXCEPT !.proof_no = @ + 1]

\* a pair check that does not compare the hash
check_validity_unlinked(block, prev_block) ==
    IF prev_block.index + 1 # block.index THEN FALSE
    ELSE verifying_proof(block.proof_no, prev_block.proof_no)

check_validity(block, prev_block) ==
    IF prev_block.index + 1 # block.index THEN FALSE
    ELSE IF calculate_hash(prev_block) # block.prev_hash THEN FALSE
    ELSE IF ~verifying_proof(block.proof_no, prev_block.proof_no) THEN FALSE
    ELSE TRUE

\* a walk that also wants the first block to have index 0
verify_chain_integrity_from_genesis(chain) ==
    /\ chain # <<>> => chain[1].index = 0
    /\ \A index \in 2..Len(chain) : check_validity(chain[index], chain[index - 1])

\* main.py: verify_chain_integrity(), the walk over the in-memory chain
verify_chain_integrity_full(chain) ==
    \A index \in 2..Len(chain) : check_validity(chain[index], chain[index - 1])

-----------------------------------------------------------------------------
(* class Blockchain: storage *)

\* the state in which exception e propagates
Raised(w, e) == [w EXCEPT !.exc = e]

\* the state in which the call returns v, unless an exception propagates
Returned(w, v) == IF w.exc # "" THEN w ELSE [w EXCEPT !.val = v]

\* the file f'{blockchain_name}_block_{index}.pkl'
BlockFile(name, index) == [name |-> name, index |-> index]

\* the part of a block file's name after f'{blockchain_name}_block_'
NameTail(f) == DigitChars(f.index) \o <<46, 112, 107, 108>>

RECURSIVE ParseInt(_, _)
ParseInt(acc, chars) ==
    IF chars = <<>> THEN acc ELSE ParseInt(acc * 10 + (chars[1] - 48), Tail(chars))

\* int(filename.split('_block_')[-1].split('.')[0])
extract_block_index(f) ==
    ParseInt(0, SelectSeq(NameTail(f), LAMBDA c : c >= 48 /\ c <= 57))

\* [f for f in os.listdir(storage_dir) if f.startswith(f'{name}_block_')]
Listing(dir, name) == {f \in DOMAIN dir : f.name = name}

RECURSIVE sorted_lexical(_)
\* sorted(files): by file name
sorted_lexical(S) ==
    IF S = {} THEN <<>>
    ELSE LET m == CHOOSE x \in S :
                    \A y \in S \ {x} : StrLess(NameTail(x), NameTail(y))
         IN <<m>> \o sorted_lexical(S \ {m})

RECURSIVE sorted_by_index(_)
\* sorted(files, key=extract_block_index)
sorted_by_index(S) ==
    IF S = {} THEN <<>>
    ELSE LET m == CHOOSE x \in S :
                    \A y \in S \ {x} : extract_block_index(x) < extract_block_index(y)
         IN <<m>> \o sorted_by_index(S \ {m})

\* the order in which load_chain reads the block files
block_files(v, dir, name) ==
    IF v = "gui" THEN sorted_by_index(Listing(dir, name))
    ELSE sorted_lexical(Listing(dir, name))

\* d[k] = x for a dict d
Put(d, k, x) == [y \in DOMAIN d \cup {k} |-> IF y = k THEN x ELSE d[y]]

EmptyDict == [y \in {} |-> 0]

\* an object before its constructor ran (and the place of an object when the
\* process is not running); every object carries the fields of all classes
NoObject ==
    [chain |-> <<>>, current_data |-> <<>>, chunk_index |-> EmptyDict,
     storage_dir |-> "", blockchain_name |-> "", file_index |-> EmptyDict,
     users |-> EmptyDict, storage_file |-> ""]

\* the directory behind an object's storage_dir
DirOf(k) ==
    CASE k = "fb" -> "fdir" [] k = "ab" -> "adir" [] k = "ib" -> "idir"
      [] k = "ob" -> "fdir"

latest_block(o) == Last(o.chain)

\* a save_block that opens the block file with mode 'xb': it refuses to write
\* over a block that is already stored
save_block_exclusive(w, k, block) ==
    LET name == BlockFile(w[k].blockchain_name, block.index)
    IN IF ~w.writable THEN Raised(w, "OSError")
       ELSE IF name \in DOMAIN w[DirOf(k)] THEN Raised(w, "FileExistsError")
       ELSE [w EXCEPT ![DirOf(k)] = Put(@, name, block),
                      ![k].chunk_index = Put(@, block.index, join(w[k].storage_dir, <<name>>))]

\* open(block_file, 'wb') raises OSError when the storage refuses the write
\* (w.writable is FALSE)
save_block(w, k, block) ==
    LET name == BlockFile(w[k].blockchain_name, block.index)
    IN IF ~w.writable THEN Raised(w, "OSError")
       ELSE [w EXCEPT ![DirOf(k)] = Put(@, name, block),
                      ![k].chunk_index = Put(@, block.index, join(w[k].storage_dir, <<name>>))]

\* load_block: open(os.path.join(storage_dir, block_file)) finds a file when
\* the joined path is <storage_dir>/<a file of the directory>
block_exists(w, k, block_file) ==
    LET path == join(w[k].storage_dir, block_file)
    IN /\ Len(path) = 2
       /\ path[1] = w[k].storage_dir
       /\ path[2] \in DOMAIN w[DirOf(k)]

load_block(w, k, block_file) == w[DirOf(k)][Last(block_file)]

\* a seal that writes the new block over the last one
append_and_save_over_last(w, k, block) ==
    save_block([w EXCEPT ![k].current_data = <<>>,
                         ![k].chain = IF @ = <<>> THEN <<block>>
                                      ELSE [@ EXCEPT ![Len(@)] = block],
                         !.now = @ + 1], k, block)

\* construct_block: current_data = [], chain.append(block), save_block(block)
append_and_save(w, k, block) ==
    save_block([w EXCEPT ![k].current_data = <<>>,
                         ![k].chain = Append(@, block),
                         !.now = @ + 1], k, block)

\* main.py, construct_block: the integrity check after the block was added
verify_after_construct(w, k) ==
    IF w.exc = "" /\ w.variant = "gui" /\ ~verify_chain_integrity_full(w[k].chain)
    THEN Raised(w, "ValueError")
    ELSE w

construct_block(w, k, proof_no, prev_hash) ==
    IF w.exc # "" THEN w
    ELSE IF /\ w.variant = "gui"
            /\ w[k].chain # <<>>
            /\ latest_block(w[k]).index + 1 # Len(w[k].chain)
    THEN Raised(w, "ValueError")
    ELSE verify_after_construct(
             append_and_save(w, k, Block(Len(w[k].chain), proof_no, prev_hash,
                                         w[k].current_data, w.now)), k)

construct_genesis(w, k) == construct_block(w, k, 0, GENESIS_PREV)

\* self.construct_block(self.proof_of_work(self.latest_block.proof_no),
\*                      self.latest_block.calculate_hash)
seal(w, k) ==
    IF w.exc # "" THEN w
    ELSE construct_block(w, k, proof_of_work(latest_block(w[k]).proof_no),
                         calculate_hash(latest_block(w[k])))

\* self.current_data.append(record)
append_data(w, k, record) == [w EXCEPT ![k].current_data = Append(@, record)]

RECURSIVE load_files(_, _, _, _)
\* the loop of load_chain over the sorted block files
load_files(w, k, files, i) ==
    IF i > Len(files) THEN w
    ELSE IF /\ w.variant = "gui"
            /\ w[k].chain # <<>>
            /\ ~check_validity(w[DirOf(k)][files[i]], latest_block(w[k]))
    THEN Raised(w, "ValueError")
    ELSE load_files([w EXCEPT ![k].chain = Append(@, w[DirOf(k)][files[i]]),
                              ![k].chunk_index =
                                  Put(@, w[DirOf(k)][files[i]].index, <<files[i]>>)],
                    k, files, i + 1)

\* load_chain: if not self.chain: self.construct_genesis()
genesis_if_empty(w, k) ==
    IF w.exc = "" /\ w[k].chain = <<>> THEN construct_genesis(w, k) ELSE w

\* main.py, load_chain: the integrity check after loading
verify_after_load(w, k) ==
    IF w.exc = "" /\ w.variant = "gui" /\ ~verify_chain_integrity_full(w[k].chain)
    THEN Raised(w, "ValueError")
    ELSE w

load_chain(w, k) ==
    IF w.exc # "" THEN w
    ELSE verify_after_load(
             genesis_if_empty(
                 load_files([w EXCEPT ![k].chain = <<>>, ![k].chunk_index = EmptyDict],
                            k,
                            block_files(w.variant, w[DirOf(k)], w[k].blockchain_name),
                            1),
                 k),
             k)

\* Blockchain.__init__
Blockchain_init(w, k, storage_dir, blockchain_name) ==
    IF w.exc # "" THEN w
    ELSE load_chain([w EXCEPT ![k] = [NoObject EXCEPT !.storage_dir = storage_dir,
                                                      !.blockchain_name = blockchain_name]],
                    k)

\* the orders in which a Python set S can be iterated
Orders(S) ==
    {q \in [1..Cardinality(S) -> S] : \A i, j \in 1..Cardinality(S) : q[i] = q[j] => i = j}

\* the set blocks_to_load of load_adjacent_blocks
blocks_to_load(o, block_index) ==
    {o.chunk_index[i] : i \in ({block_index, block_index + 1}
                               \cup (IF block_index > 0 THEN {block_index - 1} ELSE {}))
                              \cap (DOMAIN o.chunk_index)}

\* load_adjacent_blocks, its set iterated in `order`: the blocks loaded, or
\* the exception of load_block when it finds no file
load_adjacent_blocks(w, k, order) ==
    IF \E i \in 1..Len(order) : ~block_exists(w, k, order[i])
    THEN [blocks |-> <<>>, exc |-> "FileNotFoundError"]
    ELSE [blocks |-> [i \in 1..Len(order) |-> load_block(w, k, order[i])], exc |-> ""]

\* BlockChainBackup.py: verify_chain_integrity(target_block_index), on the
\* blocks that load_adjacent_blocks returned
verify_chain_integrity_window(loaded_blocks, target_block_index) ==
    LET at(n) == {i \in 1..Len(loaded_blocks) : loaded_blocks[i].index = n}
        \* blocks = {block.index: block for block in loaded_blocks}
        get(n) == loaded_blocks[CHOOSE i \in at(n) : \A j \in at(n) : j <= i]
    IN IF at(target_block_index) # {}
       THEN IF at(target_block_index - 1) # {}
               /\ ~check_validity(get(target_block_index), get(target_block_index - 1))
            THEN FALSE
            ELSE IF at(target_block_index + 1) # {}
                    /\ ~check_validity(get(target_block_index + 1), get(target_block_index))
            THEN FALSE
            ELSE TRUE
       ELSE FALSE

\* what verify_chain_integrity(target_block_index) gives once
\* load_adjacent_blocks gave `loaded`: its exception, or the verdict
window_result(loaded, target_block_index) ==
    IF loaded.exc # "" THEN Raise(loaded.exc)
    ELSE Val(verify_chain_integrity_window(loaded.blocks, target_block_index))

\* BlockChainBackup.py: verify_chain_integrity(target_block_index) of object
\* k, the set of load_adjacent_blocks being iterated in `order`
verify_chain_integrity(w, k, target_block_index, order) ==
    window_result(load_adjacent_blocks(w, k, order), target_block_index)

-----------------------------------------------------------------------------
(* class FileBlockchain *)

RECURSIVE Flatten(_)
\* the records of a list of blocks, in order, each with the index of its block
Flatten(blocks) ==
    IF blocks = <<>> THEN <<>>
    ELSE [i \in 1..Len(blocks[1].data) |->
             [data |-> blocks[1].data[i], index |-> blocks[1].index]]
         \o Flatten(Tail(blocks))

IsFileRecord(data) == "file_name" \in DOMAIN data

IsUserRecord(data) == {"username", "password_hash"} \subseteq DOMAIN data

\* the dict that assigning d[pair[1]] = pair[2] for each pair, in order, leaves
LastWins(d, pairs) ==
    LET keys == {pairs[i][1] : i \in 1..Len(pairs)}
        last(n) == CHOOSE i \in 1..Len(pairs) :
                      /\ pairs[i][1] = n
                      /\ \A j \in 1..Len(pairs) : pairs[j][1] = n => j <= i
    IN [n \in DOMAIN d \cup keys |-> IF n \in keys THEN pairs[last(n)][2] ELSE d[n]]

\* self.file_index[data['file_name']] = block.index, for each file record
FileIndexPairs(recs) ==
    [i \in 1..Len(recs) |-> <<recs[i].data.file_name, recs[i].index>>]

update_file_index(o) ==
    [o EXCEPT !.file_index =
        LastWins(EmptyDict,
                 FileIndexPairs(SelectSeq(Flatten(o.chain),
                                          LAMBDA r : IsFileRecord(r.data))))]

\* self.users[data['username']] = data['password_hash'], for each user record
UserPairs(recs) ==
    [i \in 1..Len(recs) |-> <<recs[i].data.username, recs[i].data.password_hash>>]

\* main.py
load_users_from_chain(o) ==
    [o EXCEPT !.users =
        LastWins(o.users,
                 UserPairs(SelectSeq(Flatten(o.chain),
                                     LAMBDA r : IsUserRecord(r.data))))]

FileListEntry(r) ==
    [file_name |-> r.data.file_name, owner |-> r.data.owner,
     file_date |-> r.data.file_date]

ListOf(recs) == [i \in 1..Len(recs) |-> FileListEntry(recs[i])]

get_file_list(o) ==
    ListOf(SelectSeq(Flatten(o.chain), LAMBDA r : IsFileRecord(r.data)))

\* FileBlockchain.__init__ after super().__init__
FileBlockchain_derive(w) ==
    IF w.exc # "" THEN w
    ELSE IF w.variant = "gui"
    THEN [w EXCEPT !.fb = load_users_from_chain(update_file_index(@))]
    ELSE [w EXCEPT !.fb = update_file_index(@)]

FileBlockchain_init(w, blockchain_name) ==
    FileBlockchain_derive(Blockchain_init(w, "fb", FILE_DIR, blockchain_name))

\* self.users[username] = password_hash
set_user(w, username, password_hash) ==
    IF w.exc # "" THEN w
    ELSE [w EXCEPT !.fb.users = Put(@, username, password_hash)]

\* main.py
add_user(w, username, password) ==
    set_user(seal(append_data(w, "fb", [username |-> username,
                                        password_hash |-> sha256(password)]), "fb"),
             username, sha256(password))

register_user(w, username, password) ==
    IF username \in DOMAIN w.fb.users THEN Returned(w, Val(FALSE))
    ELSE IF w.variant = "gui" THEN Returned(add_user(w, username, password), Val(TRUE))
    ELSE Returned(set_user(w, username, sha256(password)), Val(TRUE))

\* an authentication that only looks for the name
authenticate_user_by_name(o, username, password) == username \in DOMAIN o.users

authenticate_user(o, username, password) ==
    IF username \notin DOMAIN o.users THEN FALSE
    ELSE o.users[username] = sha256(password)

is_file_in_chain(o, file_name) == file_name \in DOMAIN o.file_index

-----------------------------------------------------------------------------
(* class AccessBlockchain *)

\* load_access_chain: self.chain = pickle.load(file) when the file exists
read_access_chain(w) ==
    IF w.ab.storage_file \in DOMAIN w.afile
    THEN [w EXCEPT !.ab.chain = w.afile[w.ab.storage_file]]
    ELSE w

load_access_chain(w) ==
    IF w.exc # "" THEN w ELSE genesis_if_empty(read_access_chain(w), "ab")

\* self.storage_file = os.path.join(storage_dir, f'{blockchain_name}_access_chain.pkl')
set_storage_file(w, blockchain_name) ==
    IF w.exc # "" THEN w ELSE [w EXCEPT !.ab.storage_file = blockchain_name]

AccessBlockchain_init(w, blockchain_name) ==
    load_access_chain(
        set_storage_file(Blockchain_init(w, "ab", ACCESS_DIR, blockchain_name),
                         blockchain_name))

save_access_chain(w) ==
    IF w.exc # "" THEN w ELSE [w EXCEPT !.afile = Put(@, w.ab.storage_file, w.ab.chain)]

grant_access(w, file_name, owner, user_to_share) ==
    IF w.exc # "" THEN w
    ELSE seal(append_data(w, "ab", [file_name |-> file_name, owner |-> owner,
                                    user_to_share |-> user_to_share,
                                    timestamp |-> w.now]), "ab")

GrantMatches(recs, file_name, user) ==
    \E i \in 1..Len(recs) :
        /\ basename(recs[i].data.file_name) = basename(file_name)
        /\ (recs[i].data.user_to_share = user \/ recs[i].data.owner = user)

\* an access check that forgets the granter
has_access_grantee_only(o, file_name, user) ==
    \E i \in 1..Len(Flatten(o.chain)) :
        /\ basename(Flatten(o.chain)[i].data.file_name) = basename(file_name)
        /\ Flatten(o.chain)[i].data.user_to_share = user

has_access(o, file_name, user) == GrantMatches(Flatten(o.chain), file_name, user)

\* the command grant_permission <path> <user> given by the logged-in user
\* current_user, <path> being a file: is_file_in_chain is the only test
grant_permission(w, current_user, path_to_grant, user_to_grant) ==
    IF is_file_in_chain(w.fb, path_to_grant)
    THEN save_access_chain(grant_access(w, path_to_grant, current_user, user_to_grant))
    ELSE w

-----------------------------------------------------------------------------
(* class IndexBlockchain *)

IndexBlockchain_init(w, blockchain_name) ==
    Blockchain_init(w, "ib", INDEX_DIR, blockchain_name)

\* an update_index that carries the snapshots of the last block over into
\* the new block
update_index_merging(w, file_list) ==
    IF w.exc # "" THEN w
    ELSE seal(append_data([w EXCEPT !.ib.current_data = @ \o Last(w.ib.chain).data],
                          "ib", [file_list |-> file_list, timestamp |-> w.now]), "ib")

update_index(w, file_list) ==
    IF w.exc # "" THEN w
    ELSE seal(append_data(w, "ib", [file_list |-> file_list, timestamp |-> w.now]), "ib")

get_latest_index(o) == IF o.chain # <<>> THEN Last(o.chain).data ELSE <<>>

-----------------------------------------------------------------------------
(* FileBlockchain: add_file and get_file_content *)

\* add_file: self.update_file_index() after the block was constructed
reindex(w) == IF w.exc # "" THEN w ELSE [w EXCEPT !.fb = update_file_index(@)]

\* add_file: index_blockchain.update_index(self.get_file_list())
refresh_index(w) == IF w.exc # "" THEN w ELSE update_index(w, get_file_list(w.fb))

\* an add_file that snapshots the listing before it seals the file
add_relative_index_first(w, relative_path, file_date, file_content, owner) ==
    save_access_chain(
        grant_access(
            reindex(seal(append_data(refresh_index(w), "fb",
                                     [file_name |-> relative_path,
                                      file_date |-> file_date,
                                      file_content |-> hex(file_content),
                                      owner |-> owner]), "fb")),
            relative_path, owner, owner))

\* add_file with relative_path already computed
add_relative(w, relative_path, file_date, file_content, owner) ==
    refresh_index(
        save_access_chain(
            grant_access(
                reindex(seal(append_data(w, "fb",
                                         [file_name |-> relative_path,
                                          file_date |-> file_date,
                                          file_content |-> hex(file_content),
                                          owner |-> owner]), "fb")),
                relative_path, owner, owner)))

add_file(w, file_path, file_date, file_content, owner) ==
    add_relative(w, relpath(file_path), file_date, file_content, owner)

RECURSIVE scan(_, _, _, _)
\* the loops of get_file_content over the loaded blocks
scan(recs, file_name, owner, is_shared) ==
    IF recs = <<>> THEN None
    ELSE IF ~IsFileRecord(recs[1].data) THEN Raise("KeyError")
    ELSE IF recs[1].data.file_name = file_name /\ (recs[1].data.owner = owner \/ is_shared)
    THEN Val(fromhex(recs[1].data.file_content))
    ELSE scan(Tail(recs), file_name, owner, is_shared)

\* get_file_content once load_adjacent_blocks(block_index) gave `loaded`
read_window(w, loaded, block_index, file_name, owner, is_shared) ==
    IF w.variant = "cli" /\ loaded.exc # "" THEN Raise(loaded.exc)
    ELSE IF w.variant = "cli" /\ ~verify_chain_integrity_window(loaded.blocks, block_index)
    THEN None
    ELSE IF w.variant = "gui" /\ ~verify_chain_integrity_full(w.fb.chain) THEN None
    ELSE IF loaded.exc # "" THEN Raise(loaded.exc)
    ELSE scan(Flatten(loaded.blocks), file_name, owner, is_shared)

\* get_file_content, the set of load_adjacent_blocks being iterated in `order`:
\* None, Val(bytes) or Raise(exception)
get_file_content(w, file_name, owner, is_shared, order) ==
    IF file_name \notin DOMAIN w.fb.file_index THEN None
    ELSE read_window(w, load_adjacent_blocks(w, "fb", order),
                     w.fb.file_index[file_name], file_name, owner, is_shared)

\* the orders in which get_file_content may find its window
WindowOrders(o, file_name) ==
    IF file_name \in DOMAIN o.file_index
    THEN Orders(blocks_to_load(o, o.file_index[file_name]))
    ELSE {<<>>}

-----------------------------------------------------------------------------
(* The program's state as one value, and the start of the process *)

World ==
    [variant |-> variant, fb |-> fb, ab |-> ab, ib |-> ib, ob |-> ob,
     search |-> search,
     fdir |-> fdir,
     adir |-> adir, idir |-> idir, afile |-> afile, now |-> now,
     writable |-> TRUE, exc |-> "", val |-> None]

\* the objects are gone: the process ended, or a constructor raised
Discard(w) == [w EXCEPT !.fb = NoObject, !.ab = NoObject, !.ib = NoObject]

DiscardIfRaised(w) == IF w.exc # "" THEN Discard(w) ELSE w

\* the three constructors, in the order of initialize_blockchains (main.py)
\* and of the start of the command-line program
initialize_blockchains(w, blockchain_name) ==
    DiscardIfRaised(
        IndexBlockchain_init(
            AccessBlockchain_init(FileBlockchain_init(w, blockchain_name),
                                  blockchain_name),
            blockchain_name))

\* a machine with empty storage directories, `v` installed, nothing running
Blank(v) ==
    [variant |-> v, fb |-> NoObject, ab |-> NoObject, ib |-> NoObject,
     ob |-> NoObject, search |-> Idle,
     fdir |-> EmptyDict, adir |-> EmptyDict, idir |-> EmptyDict,
     afile |-> EmptyDict, now |-> 1, writable |-> TRUE, exc |-> "", val |-> None]

RECURSIVE PriorSession(_, _)
\* the state after an earlier session that stored b"hi" as f.txt n times, the
\* file having the modification time "d0" every time but the last
PriorSession(v, n) ==
    IF n = 0 THEN initialize_blockchains(Blank(v), DEFAULT_NAME)
    ELSE LET before == PriorSession(v, n - 1)
         IN IF before.exc # "" THEN before
            ELSE add_file(before, <<"f.txt">>,
                          IF n < PriorLen THEN "d0" ELSE "d1",
                          <<104, 105>>, "alice")

\* what earlier sessions left behind
Prior(v, n) == IF n = 0 THEN Blank(v) ELSE Discard(PriorSession(v, n))

\* a change of name that opens the access chain of the new name in place of
\* the one in memory
set_blockchain_name_reopening(w, blockchain_name) ==
    AccessBlockchain_init([w EXCEPT !.fb.blockchain_name = blockchain_name,
                                    !.ib.blockchain_name = blockchain_name],
                          blockchain_name)

\* backup / load_backup: the three objects are given another blockchain_name
set_blockchain_name(w, blockchain_name) ==
    [w EXCEPT !.fb.blockchain_name = blockchain_name,
              !.ab.blockchain_name = blockchain_name,
              !.ib.blockchain_name = blockchain_name]

\* main.py, backup_files: the handler returns when the integrity check after
\* add_file fails
return_if_invalid(w) ==
    IF w.exc = "" /\ w.variant = "gui" /\ ~verify_chain_integrity_full(w.fb.chain)
    THEN Raised(w, "return")
    ELSE w

\* backup: one file of the walk is added unless is_file_in_chain(file_path)
backup_file(w, file_path, file_date, file_content, owner) ==
    IF is_file_in_chain(w.fb, file_path) THEN w
    ELSE return_if_invalid(add_file(w, file_path, file_date, file_content, owner))

RECURSIVE backup_walk(_, _, _, _, _, _)
\* backup: the loop over the files found by os.walk('.')
backup_walk(w, files, i, file_date, file_content, owner) ==
    IF i > Len(files) \/ w.exc # "" THEN w
    ELSE backup_walk(backup_file(w, files[i], file_date, file_content, owner),
                     files, i + 1, file_date, file_content, owner)

\* backup after the loop: main.py returned on ValueError or on a failed check;
\* otherwise update_file_index() and load_chain()
backup_end(w) ==
    IF w.exc = "return" \/ (w.variant = "gui" /\ w.exc = "ValueError")
    THEN [w EXCEPT !.exc = ""]
    ELSE load_chain(reindex(w), "fb")

backup(w, blockchain_name, files, file_date, file_content, owner) ==
    backup_end(backup_walk(set_blockchain_name(w, blockchain_name), files, 1,
                           file_date, file_content, owner))

RECURSIVE append_backup_blocks(_, _, _)
\* load_backup: chain.append(block), chunk_index[block.index] = block_path
append_backup_blocks(w, files, i) ==
    IF i > Len(files) THEN w
    ELSE append_backup_blocks(
             [w EXCEPT !.fb.chain = Append(@, w.fdir[files[i]]),
                       !.fb.chunk_index =
                           Put(@, w.fdir[files[i]].index, join(FILE_DIR, <<files[i]>>))],
             files, i + 1)

load_backup(w, blockchain_name) ==
    load_chain(
        reindex(append_backup_blocks(set_blockchain_name(w, blockchain_name),
                                     sorted_lexical(Listing(w.fdir, blockchain_name)), 1)),
        "fb")

\* what an earlier session left that stored f.txt and then ran a backup of
\* the same file under the name "b"
PriorBackup(v) ==
    Discard(backup(PriorSession(v, 1), "b", << <<".", "f.txt">> >>, "d1",
                   <<104, 105>>, "alice"))

NoRet == [op |-> "none", args |-> <<>>, val |-> None]

\* the variables take the values of w
InitAs(w) ==
    /\ fb = w.fb /\ ab = w.ab /\ ib = w.ib /\ ob = w.ob
    /\ search = w.search
    /\ fdir = w.fdir /\ adir = w.adir /\ idir = w.idir
    /\ afile = w.afile /\ now = w.now

\* nothing is running; the storage is what n earlier put_file calls left
InitFrom(n) ==
    /\ variant \in Variants
    /\ InitAs(Prior(variant, n))
    /\ up = FALSE
    /\ ops = 0
    /\ tampered = {}
    /\ ret = NoRet

\* a machine on which the program never ran
Init == InitFrom(0)

\* a machine on which an earlier session left a backup under another name
InitNames ==
    /\ variant \in Variants
    /\ InitAs(PriorBackup(variant))
    /\ up = FALSE
    /\ ops = 0
    /\ tampered = {}
    /\ ret = NoRet

\* a machine on which earlier sessions left a chain of PriorLen + 1 blocks
InitLong == InitFrom(PriorLen)

-----------------------------------------------------------------------------
(* Actions *)

Result(w) == IF w.exc # "" THEN Raise(w.exc) ELSE w.val

\* operation op with arguments args takes the program to w
Do(op, args, w) ==
    /\ fb' = w.fb /\ ab' = w.ab /\ ib' = w.ib /\ ob' = w.ob
    /\ search' = w.search
    /\ fdir' = w.fdir /\ adir' = w.adir /\ idir' = w.idir
    /\ afile' = w.afile /\ now' = w.now
    /\ ret' = [op |-> op, args |-> args, val |-> Result(w)]
    /\ variant' = variant

\* the operations that only answer
Queries == {"authenticate_user", "get_file_content", "has_access", "verify_chain_integrity"}

\* operation op with arguments args answers val and changes nothing.  A query
\* made right after another query reaches the state that it reaches when made
\* alone, so only the first query after a change is explored.
Answer(op, args, val) ==
    /\ ret.op \notin Queries
    /\ ret' = [op |-> op, args |-> args, val |-> val]
    /\ UNCHANGED <<variant, up, fb, ab, ib, ob, search, fdir, adir, idir, afile, now, ops,
                   tampered>>

\* the process starts: the three chains are opened
Open ==
    /\ ~up
    /\ Do("open", <<>>, initialize_blockchains(World, DEFAULT_NAME))
    /\ up' = (ret'.val.kind # "raise")
    /\ UNCHANGED <<ops, tampered>>

\* the process ends: the objects are discarded, the files stay
Close ==
    /\ up
    /\ Do("close", <<>>, Discard(World))
    /\ up' = FALSE
    /\ UNCHANGED <<ops, tampered>>

RegisterUser(username, password) ==
    /\ up /\ ops < MaxOps
    /\ Do("register_user", <<username, password>>,
          register_user(World, username, password))
    /\ ops' = ops + 1
    /\ UNCHANGED <<up, tampered>>

AuthenticateUser(username, password) ==
    /\ up
    /\ Answer("authenticate_user", <<username, password>>,
              Val(authenticate_user(fb, username, password)))

AddFile(file_path, file_date, file_content, owner) ==
    /\ up /\ ops < MaxOps
    /\ Do("add_file", <<file_path, file_date, file_content, owner>>,
          add_file(World, file_path, file_date, file_content, owner))
    /\ ops' = ops + 1
    /\ UNCHANGED <<up, tampered>>

GetFileContent(file_name, owner, is_shared) ==
    /\ up
    /\ \E order \in WindowOrders(fb, file_name) :
          Answer("get_file_content", <<file_name, owner, is_shared>>,
                 get_file_content(World, file_name, owner, is_shared, order))

\* grant_access followed by save_access_chain, as every caller does
GrantAccess(file_name, owner, user_to_share) ==
    /\ up /\ ops < MaxOps
    /\ Do("grant_access", <<file_name, owner, user_to_share>>,
          save_access_chain(grant_access(World, file_name, owner, user_to_share)))
    /\ ops' = ops + 1
    /\ UNCHANGED <<up, tampered>>

HasAccess(file_name, user) ==
    /\ up
    /\ Answer("has_access", <<file_name, user>>, Val(has_access(ab, file_name, user)))

\* index_blockchain.update_index(file_blockchain.get_file_list())
UpdateIndex ==
    /\ up /\ ops < MaxOps
    /\ Do("update_index", <<>>, refresh_index(World))
    /\ ops' = ops + 1
    /\ UNCHANGED <<up, tampered>>

\* file_blockchain.load_chain(): the chain is read again from storage
Reload ==
    /\ up /\ ops < MaxOps
    /\ Do("load_chain", <<>>, load_chain(World, "fb"))
    /\ ops' = ops + 1
    /\ UNCHANGED <<up, tampered>>

\* main.py: file_blockchain.verify_chain_integrity()
VerifyFull ==
    /\ up /\ variant = "gui"
    /\ Answer("verify_chain_integrity", <<>>, Val(verify_chain_integrity_full(fb.chain)))

\* the payload an outsider writes into a block file
TamperData ==
    <<[file_name |-> <<"f.txt">>, file_date |-> "d1",
       file_content |-> hex(<<104, 105>>), owner |-> "mallory"]>>

\* out-of-band: somebody rewrites the payload of one persisted block
Tamper(f) ==
    /\ tampered = {} /\ ops < MaxOps
    /\ f \in DOMAIN fdir
    /\ fdir' = [fdir EXCEPT ![f].data = TamperData]
    /\ tampered' = {f}
    /\ ops' = ops + 1
    /\ ret' = [op |-> "tamper", args |-> <<f.index>>, val |-> None]
    /\ UNCHANGED <<variant, up, fb, ab, ib, ob, search, adir, idir, afile, now>>

\* one step of the program with its inputs drawn from the given sets
Step(U, S, P, C) ==
    \/ Open
    \/ Close
    \/ \E u \in U, pw \in S : RegisterUser(u, pw)
    \/ \E u \in U, pw \in S : AuthenticateUser(u, pw)
    \/ \E p \in P, d \in Dates, c \in C, o \in U : AddFile(p, d, c, o)
    \/ \E p \in P, o \in U, sh \in BOOLEAN : GetFileContent(p, o, sh)
    \/ \E p \in P, o \in U, u \in U : GrantAccess(p, o, u)
    \/ \E p \in P, u \in U \cup {"carol"} : HasAccess(p, u)
    \/ UpdateIndex
    \/ Reload
    \/ VerifyFull
    \/ \E f \in DOMAIN fdir : Tamper(f)

Next == Step(Users, Secrets, Paths, Contents)

Spec == Init /\ [][Next]_vars

\* the same program on the long chain, with one user and one path
NextLong == Step({"alice"}, {"p"}, {<<"f.txt">>}, Contents)

SpecLong == InitLong /\ [][NextLong]_vars

\* main.py: login or register with a blockchain name starts the three chains
OpenNamed(blockchain_name) ==
    /\ ~up /\ variant = "gui"
    /\ Do("open", <<blockchain_name>>, initialize_blockchains(World, blockchain_name))
    /\ up' = (ret'.val.kind # "raise")
    /\ UNCHANGED <<ops, tampered>>

\* the backup command with the files that the walk finds
Backup(blockchain_name, files, file_date, file_content, owner) ==
    /\ up /\ ops < MaxOps
    /\ Do("backup", <<blockchain_name, files, file_date, file_content, owner>>,
          backup(World, blockchain_name, files, file_date, file_content, owner))
    /\ ops' = ops + 1
    /\ UNCHANGED <<up, tampered>>

\* the load_backup command
LoadBackup(blockchain_name) ==
    /\ up /\ ops < MaxOps
    /\ Do("load_backup", <<blockchain_name>>, load_backup(World, blockchain_name))
    /\ ops' = ops + 1
    /\ UNCHANGED <<up, tampered>>

\* the program with one user and one file, and the commands that change the name
NextNames ==
    \/ Step({"alice"}, {"p"}, {<<"f.txt">>}, {<<104, 105>>})
    \/ \E n \in Names \ {DEFAULT_NAME} : OpenNamed(n)
    \/ \E n \in Names, fs \in {<<>>, << <<".", "f.txt">> >>} :
          Backup(n, fs, "d1", <<104, 105>>, "alice")
    \/ \E n \in Names : LoadBackup(n)

SpecNames == InitNames /\ [][NextNames]_vars

\* Blockchain.proof_of_work(last_proof), called on its own
ProofOfWork(last_proof) ==
    /\ ret' = [op |-> "proof_of_work", args |-> <<last_proof>>,
               val |-> Val(proof_of_work(last_proof))]
    /\ UNCHANGED <<variant, up, fb, ab, ib, ob, search, fdir, adir, idir, afile, now, ops,
                   tampered>>

NextProof == \E last_proof \in 0..MaxProof : ProofOfWork(last_proof)

\* the proof search applied to every last proof up to MaxProof
SpecProof == Init /\ [][NextProof]_vars

\* BlockChainBackup.py: file_blockchain.verify_chain_integrity(target)
VerifyWindow(target_block_index) ==
    /\ up /\ variant = "cli"
    /\ \E order \in Orders(blocks_to_load(fb, target_block_index)) :
          Answer("verify_chain_integrity", <<target_block_index>>,
                 verify_chain_integrity(World, "fb", target_block_index, order))

\* a machine that is new or holds a long chain
InitWindow == InitFrom(0) \/ InitFrom(PriorLen)

NextWindow ==
    \/ Step({"alice"}, {"p"}, {<<"f.txt">>}, {<<104, 105>>})
    \/ \E target_block_index \in 0..(PriorLen + 2) : VerifyWindow(target_block_index)

\* the program with the windowed check called on every block index
SpecWindow == InitWindow /\ [][NextWindow]_vars

\* the blocks that may follow block `last`: index, proof and prev_hash each
\* either as construct_block computes them or wrong
NextBlocks(last) ==
    {Block(index, proof_no, prev_hash, <<>>, last.timestamp + 1) :
        index \in {last.index + 1, last.index + 2},
        proof_no \in {proof_of_work(last.proof_no), proof_of_work(last.proof_no) + 1},
        prev_hash \in {calculate_hash(last), GENESIS_PREV}}

RECURSIVE SampleChains(_)
\* chains of n blocks, starting with a genesis block or with another block
SampleChains(n) ==
    IF n = 0 THEN {<<>>}
    ELSE IF n = 1
    THEN {<<Block(index, proof_no, GENESIS_PREV, <<>>, 1)>> :
             index \in {0, 2}, proof_no \in {0, 5}}
    ELSE UNION {{Append(c, b) : b \in NextBlocks(Last(c))} : c \in SampleChains(n - 1)}

\* main.py: a file chain object holding any chain of up to MaxLen blocks
InitVerify ==
    /\ variant = "gui"
    /\ up = TRUE
    /\ \E n \in 0..MaxLen : \E c \in SampleChains(n) :
          fb = [NoObject EXCEPT !.chain = c, !.storage_dir = FILE_DIR,
                                !.blockchain_name = DEFAULT_NAME]
    /\ ab = NoObject /\ ib = NoObject /\ ob = NoObject /\ search = Idle
    /\ fdir = EmptyDict /\ adir = EmptyDict /\ idir = EmptyDict
    /\ afile = EmptyDict /\ now = 1
    /\ ops = 0
    /\ tampered = {}
    /\ ret = NoRet

NextVerify == VerifyFull

\* verify_chain_integrity() applied to every sample chain
SpecVerify == InitVerify /\ [][NextVerify]_vars

\* add_file while the storage refuses every write (disk full, directory
\* read-only): open(block_file, 'wb') in save_block raises OSError
AddFileUnwritable(file_path, file_date, file_content, owner) ==
    /\ up /\ ops < MaxOps
    /\ Do("add_file", <<file_path, file_date, file_content, owner>>,
          add_file([World EXCEPT !.writable = FALSE],
                   file_path, file_date, file_content, owner))
    /\ ops' = ops + 1
    /\ UNCHANGED <<up, tampered>>

NextFail ==
    \/ Step({"alice"}, {"p"}, {<<"f.txt">>}, Contents)
    \/ \E c \in Contents : AddFileUnwritable(<<"f.txt">>, "d1", c, "alice")

\* the program on a machine whose storage may refuse a write
SpecFail == Init /\ [][NextFail]_vars

\* the two processes that hold a Blockchain on the same storage_dir and
\* blockchain_name
Writers == {"fb", "ob"}

\* the Blockchain object of writer k
Object(k) == IF k = "fb" THEN fb ELSE ob

\* a constructor that raises leaves no object behind
NoObjectIfRaised(w, k) == IF w.exc # "" THEN [w EXCEPT ![k] = NoObject] ELSE w

\* writer k constructs Blockchain(FILE_DIR, DEFAULT_NAME): load_chain
OpenChain(k) ==
    /\ Object(k).chain = <<>>
    /\ Do("Blockchain", <<k>>,
          NoObjectIfRaised(Blockchain_init(World, k, FILE_DIR, DEFAULT_NAME), k))
    /\ UNCHANGED <<up, ops, tampered>>

\* writer k appends one record to current_data and seals it.  The seal reads
\* only the writer's own chain and touches the storage in save_block alone, so
\* every interleaving of two seals is an order of their two writes.
SealChain(k, file_content) ==
    /\ Object(k).chain # <<>> /\ ops < MaxOps
    /\ Do("seal", <<k, file_content>>,
          seal(append_data(World, k,
                           [file_name |-> <<"f.txt">>, file_date |-> "d1",
                            file_content |-> hex(file_content), owner |-> k]),
               k))
    /\ ops' = ops + 1
    /\ UNCHANGED <<up, tampered>>

\* the process of writer k ends: its object is gone, the files stay
CloseChain(k) ==
    /\ Object(k).chain # <<>>
    /\ Do("exit", <<k>>, [World EXCEPT ![k] = NoObject])
    /\ UNCHANGED <<up, ops, tampered>>

NextRace ==
    \/ \E k \in Writers : OpenChain(k)
    \/ \E k \in Writers, c \in Contents : SealChain(k, c)
    \/ \E k \in Writers : CloseChain(k)

\* two processes on one chain name and one storage directory
SpecRace == Init /\ [][NextRace]_vars

\* the static method proof_of_work(last_proof) is entered on its own.  A
\* search made after another search goes as it goes when made alone, so only
\* the first one is explored.
BeginSearch(last_proof) ==
    /\ ~up /\ ret.op # "proof_of_work"
    /\ search.pc = "idle"
    /\ search' = enter_search("proof_of_work", last_proof)
    /\ UNCHANGED <<variant, up, fb, ab, ib, ob, fdir, adir, idir, afile, now, ops, tampered,
                   ret>>

\* add_file: current_data.append(record), then construct_block(proof_of_work(
\* latest_block.proof_no), ...) evaluates its first argument
BeginSeal(file_content) ==
    /\ up /\ ops < MaxOps
    /\ search.pc = "idle"
    /\ fb' = [fb EXCEPT !.current_data =
                  Append(@, [file_name |-> <<"f.txt">>, file_date |-> "d1",
                             file_content |-> hex(file_content), owner |-> "alice"])]
    /\ search' = enter_search("seal", latest_block(fb).proof_no)
    /\ UNCHANGED <<variant, up, ab, ib, ob, fdir, adir, idir, afile, now, ops, tampered, ret>>

\* the while loop of proof_of_work, one candidate at a time; the model
\* follows it up to the candidate MaxCandidate
Loop ==
    /\ search.pc = "loop"
    /\ verifying_proof(search.proof_no, search.last_proof) \/ search.proof_no < MaxCandidate
    /\ search' = search_step(search)
    /\ UNCHANGED <<variant, up, fb, ab, ib, ob, fdir, adir, idir, afile, now, ops, tampered,
                   ret>>

\* return proof_no, to a caller that only wanted the proof
ReturnProof ==
    /\ search.pc = "found" /\ search.caller = "proof_of_work"
    /\ search' = Idle
    /\ ret' = [op |-> "proof_of_work", args |-> <<search.last_proof>>,
               val |-> Val(search.proof_no)]
    /\ UNCHANGED <<variant, up, fb, ab, ib, ob, fdir, adir, idir, afile, now, ops, tampered>>

\* return proof_no to the seal: construct_block(proof_no, calculate_hash)
EndSeal ==
    /\ search.pc = "found" /\ search.caller = "seal"
    /\ Do("seal", <<"fb", search.proof_no>>,
          construct_block([World EXCEPT !.search = Idle], "fb", search.proof_no,
                          calculate_hash(latest_block(fb))))
    /\ ops' = ops + 1
    /\ UNCHANGED <<up, tampered>>

NextSearch ==
    \/ search.pc = "idle" /\ Open
    \/ \E last_proof \in 0..MaxProof : BeginSearch(last_proof)
    \/ \E c \in Contents : BeginSeal(c)
    \/ Loop
    \/ ReturnProof
    \/ EndSeal

\* the proof search one candidate at a time.  The loop runs in the thread of
\* its caller and waits for nothing, so a step that is possible is taken.
SpecSearch ==
    Init /\ [][NextSearch]_vars /\ WF_vars(Loop) /\ WF_vars(ReturnProof) /\ WF_vars(EndSeal)

\* current_user[0] can be `username`: a login with some password succeeds
CanLogIn(username) == \E password \in Secrets : authenticate_user(fb, username, password)

\* the command grant_permission, given by a user who logged in
GrantPermission(current_user, path_to_grant, user_to_grant) ==
    /\ up /\ ops < MaxOps
    /\ CanLogIn(current_user)
    /\ Do("grant_permission", <<current_user, path_to_grant, user_to_grant>>,
          grant_permission(World, current_user, path_to_grant, user_to_grant))
    /\ ops' = ops + 1
    /\ UNCHANGED <<up, tampered>>

\* a machine on which an earlier session stored f.txt for alice
InitGrant == InitFrom(1)

NextGrant ==
    \/ Open
    \/ Close
    \/ \E u \in Users : RegisterUser(u, "p")
    \/ \E p \in {<<"f.txt">>, <<"d", "f.txt">>}, o \in Users : AddFile(p, "d1", <<104, 105>>, o)
    \/ \E p \in {<<"f.txt">>, <<"d", "f.txt">>}, u \in Users : HasAccess(p, u)
    \/ \E cu \in Users, p \in {<<"f.txt">>, <<"d", "f.txt">>}, u \in Users :
          GrantPermission(cu, p, u)

\* the commands that touch the access chain, after an earlier session
SpecGrant == InitGrant /\ [][NextGrant]_vars

-----------------------------------------------------------------------------
(* Properties *)

\* chain b extends chain a by exactly one block and keeps the blocks of a
AppendOnly(a, b) == Len(b) = Len(a) + 1 /\ SubSeq(b, 1, Len(a)) = a

\* the last operation returned (did not raise)
Succeeded(r) == r.val.kind # "raise"

\* every adjacent pair of the chain is linked: prev_hash, index and admission
Linked(chain) ==
    \A i \in 2..Len(chain) :
        /\ chain[i].prev_hash = calculate_hash(chain[i - 1])
        /\ chain[i].index = chain[i - 1].index + 1
        /\ verifying_proof(chain[i].proof_no, chain[i - 1].proof_no)

\* C1: absent out-of-band modification, after any sequence of open, put_file,
\* register_user, grant, update and reload (also of a chain of more than ten
\* blocks), every adjacent pair of each in-memory chain is linked.
C1_ChainLinkage ==
    (up /\ tampered = {}) => Linked(fb.chain) /\ Linked(ab.chain) /\ Linked(ib.chain)

\* C2: every successful seal (through put_file, register_user, grant, update
\* or genesis creation) lengthens the in-memory chain by exactly one block and
\* changes no field of a block already in it.
C2_SealAppendOnly ==
    [][/\ (ret'.op = "add_file" /\ Succeeded(ret'))
            => /\ AppendOnly(fb.chain, fb'.chain)
               /\ AppendOnly(ab.chain, ab'.chain)
               /\ AppendOnly(ib.chain, ib'.chain)
       /\ (ret'.op = "register_user" /\ ret'.val = Val(TRUE) /\ variant = "gui")
            => AppendOnly(fb.chain, fb'.chain)
       /\ (ret'.op = "grant_access" /\ Succeeded(ret'))
            => AppendOnly(ab.chain, ab'.chain)
       /\ (ret'.op = "update_index" /\ Succeeded(ret'))
            => AppendOnly(ib.chain, ib'.chain)
       /\ (ret'.op = "open" /\ Succeeded(ret') /\ Listing(fdir, DEFAULT_NAME) = {})
            => AppendOnly(fb.chain, fb'.chain)
       /\ (ret'.op = "open" /\ Succeeded(ret') /\ Listing(adir, DEFAULT_NAME) = {})
            => AppendOnly(ab.chain, ab'.chain)
       /\ (ret'.op = "open" /\ Succeeded(ret') /\ Listing(idir, DEFAULT_NAME) = {})
            => AppendOnly(ib.chain, ib'.chain)
      ]_vars

\* C2 witness: put_file sealed onto a file chain that already held two blocks
C2_Witness ==
    /\ ret.op = "add_file" /\ Succeeded(ret)
    /\ Len(fb.chain) = 3 /\ Len(ab.chain) >= 2 /\ Len(ib.chain) >= 2

\* C3: reloading the chain from storage gives the chain that was in memory
\* before the reload, its blocks ordered by their index, for a chain of any
\* length.
C3_RoundTrip ==
    [][(ret'.op = "load_chain" /\ Succeeded(ret') /\ tampered = {})
          => /\ fb'.chain = fb.chain
             /\ \A i \in 1..Len(fb'.chain) : fb'.chain[i].index = i - 1
      ]_vars

\* C4: in one session, put_file(p, t, b, alice) followed by
\* get_file(p, alice, allow_shared=false) returns exactly b, for bob # alice
\* get_file(p, bob, false) returns no content and get_file(p, bob, true)
\* returns b, and none of the calls raises.
C4_PutGet ==
    [][(/\ ret.op = "add_file" /\ ret'.op = "get_file_content"
        /\ ret'.args[1] = ret.args[1])
          => /\ Succeeded(ret)
             /\ ret'.val = IF ret'.args[2] = ret.args[4] \/ ret'.args[3]
                           THEN Val(ret.args[3]) ELSE None
      ]_vars

\* the operations that read the file chain from storage
Loads == {"open", "load_chain"}

\* block file f was rewritten out-of-band and still holds what was written
TamperedOnDisk(f) == f \in tampered /\ fdir[f].data = TamperData

\* the load raised the integrity error, or the full walk over the loaded chain fails
Detected == ret.val = Raise("ValueError") \/ ~verify_chain_integrity_full(fb.chain)

\* C5 as stated: for a chain of at least two blocks and any block k, the last
\* one included, a payload of persisted block k changed out-of-band is
\* detected by the reload that follows: the load fails or the full
\* verification of the loaded chain returns false.
C5_TamperAnyBlock ==
    [][(/\ ret.op = "tamper" /\ ret'.op \in Loads
        /\ Cardinality(Listing(fdir, DEFAULT_NAME)) >= 2)
          => Detected'
      ]_vars

\* C5 amended: for any persisted block k that has a successor, a payload of
\* block k changed out-of-band is detected by the reload that follows: the
\* load fails with the integrity error or the full verification of the loaded
\* chain returns false.
C5_TamperInnerBlock ==
    [][(/\ ret.op = "tamper" /\ ret'.op \in Loads
        /\ BlockFile(DEFAULT_NAME, ret.args[1] + 1) \in DOMAIN fdir)
          => Detected'
      ]_vars

\* C5 witness: the strict load raised on a rewritten block that has a successor
C5_Witness ==
    /\ ret.op \in Loads /\ ret.val = Raise("ValueError")
    /\ \E f \in tampered :
          TamperedOnDisk(f) /\ BlockFile(f.name, f.index + 1) \in DOMAIN fdir

\* C6: register_user(name, secret) returns false and changes nothing, in
\* memory or in storage, when name is in users; otherwise it returns true and
\* users[name] is digest(secret).
C6_RegisterUser ==
    [][ret'.op = "register_user"
          => IF ret'.args[1] \in DOMAIN fb.users
             THEN /\ ret'.val = Val(FALSE)
                  /\ UNCHANGED <<fb, ab, ib, fdir, adir, idir, afile>>
             ELSE /\ ret'.val = Val(TRUE)
                  /\ ret'.args[1] \in DOMAIN fb'.users
                  /\ fb'.users[ret'.args[1]] = sha256(ret'.args[2])
      ]_vars

\* C7: authenticate(name, secret) returns true exactly when name is in users
\* and digest(secret) is the credential stored for it, and changes no state.
C7_Authenticate ==
    [][ret'.op = "authenticate_user"
          => /\ ret'.val = Val(/\ ret'.args[1] \in DOMAIN fb.users
                               /\ fb.users[ret'.args[1]] = sha256(ret'.args[2]))
             /\ UNCHANGED <<fb, ab, ib, fdir, adir, idir, afile, up>>
      ]_vars

\* C7 witness: a registered name was refused with another secret
C7_Witness ==
    /\ ret.op = "authenticate_user" /\ ret.val = Val(FALSE)
    /\ ret.args[1] \in DOMAIN fb.users

\* C8: a successful register_user(name, secret) appends one credential record
\* (name, digest(secret)) and seals exactly one block of the file chain, so
\* that the registry can be rebuilt from the chain when it is opened again.
C8_CredentialSealed ==
    [][(ret'.op = "register_user" /\ ret'.val = Val(TRUE))
          => /\ AppendOnly(fb.chain, fb'.chain)
             /\ Last(fb'.chain).data =
                   <<[username |-> ret'.args[1],
                      password_hash |-> sha256(ret'.args[2])]>>
      ]_vars

\* some grant record of the access chain has the basename of file_name and
\* names user as its grantee or as its granter
SomeGrant(chain, file_name, user) ==
    \E i \in 1..Len(chain) : \E j \in 1..Len(chain[i].data) :
        /\ basename(chain[i].data[j].file_name) = basename(file_name)
        /\ (chain[i].data[j].user_to_share = user \/ chain[i].data[j].owner = user)

\* C9: has_access(path, identity) is true exactly when some grant record has
\* the basename of path and identity as grantee or granter; right after
\* grant(path, granter, grantee), has_access(path, grantee) is true.
C9_HasAccess ==
    [][ret'.op = "has_access"
          => /\ ret'.val = Val(SomeGrant(ab.chain, ret'.args[1], ret'.args[2]))
             /\ (/\ ret.op = "grant_access" /\ Succeeded(ret)
                 /\ ret.args[1] = ret'.args[1]
                 /\ ret'.args[2] \in {ret.args[2], ret.args[3]})
                    => ret'.val = Val(TRUE)
      ]_vars

\* C9 witness: access was found through the basename alone, and for the granter
C9_Witness ==
    /\ ret.op = "has_access" /\ ret.val = Val(TRUE)
    /\ \A i \in 1..Len(ab.chain) : \A j \in 1..Len(ab.chain[i].data) :
          /\ ab.chain[i].data[j].file_name # ret.args[1]
          /\ ab.chain[i].data[j].user_to_share # ret.args[2]

\* C10: when put_file(path, t, b, owner) returns, the file chain has exactly
\* one more block, holding the file record; the access chain has a new grant
\* that makes has_access(path, owner) true; the latest snapshot of the index
\* chain is the listing of the file chain; and the three blocks were sealed in
\* the order file, access, index.
C10_PutFile ==
    [][(ret'.op = "add_file" /\ Succeeded(ret'))
          => /\ AppendOnly(fb.chain, fb'.chain)
             /\ Last(fb'.chain).data =
                   <<[file_name |-> relpath(ret'.args[1]), file_date |-> ret'.args[2],
                      file_content |-> hex(ret'.args[3]), owner |-> ret'.args[4]]>>
             /\ AppendOnly(ab.chain, ab'.chain)
             /\ has_access(ab', ret'.args[1], ret'.args[4])
             /\ AppendOnly(ib.chain, ib'.chain)
             /\ Len(get_latest_index(ib')) = 1
             /\ get_latest_index(ib')[1].file_list = get_file_list(fb')
             /\ Last(fb'.chain).timestamp < Last(ab'.chain).timestamp
             /\ Last(ab'.chain).timestamp < Last(ib'.chain).timestamp
      ]_vars

\* C10 witness: put_file returned for the second file of the listing
C10_Witness ==
    /\ ret.op = "add_file" /\ Succeeded(ret)
    /\ Len(get_file_list(fb)) = 2
    /\ get_latest_index(ib)[1].file_list = get_file_list(fb)

\* a block of proof `proof` sealed after a block of proof `last_proof`
SealedPair(last_proof, proof) ==
    LET prev == Block(0, last_proof, GENESIS_PREV, <<>>, 1)
    IN <<prev, Block(1, proof, calculate_hash(prev), <<>>, 2)>>

\* C11: proof_of_work(prev_proof) returns the smallest p >= 0 for which the
\* admission predicate holds between p and prev_proof, with its arguments in
\* the order in which check_validity applies it to (block.proof,
\* prev_block.proof): the result is determined by prev_proof and a block
\* sealed with it passes check_validity.
C11_ProofSearch ==
    ret.op = "proof_of_work"
        => /\ ret.val.v \in Nat
           /\ ret.val.v = proof_of_work(ret.args[1])
           /\ verifying_proof(ret.val.v, ret.args[1])
           /\ \A q \in 0..(ret.val.v - 1) : ~verifying_proof(q, ret.args[1])
           /\ check_validity(SealedPair(ret.args[1], ret.val.v)[2],
                             SealedPair(ret.args[1], ret.val.v)[1])

\* C11 witness: a search that went past the first candidates and whose result
\* is not admitted with the two proofs the other way round
C11_Witness ==
    /\ ret.op = "proof_of_work"
    /\ ret.val.v > 9
    /\ ~verifying_proof(ret.args[1], ret.val.v)

\* the fields of a genesis block
IsGenesis(b) ==
    b.index = 0 /\ b.proof_no = 0 /\ b.prev_hash = GENESIS_PREV /\ b.data = <<>>

\* as long as nothing was modified out-of-band, every block of index 0, in
\* memory or persisted, is a genesis
GenesisFields ==
    tampered = {} =>
        /\ \A o \in {fb, ab, ib} : \A i \in 1..Len(o.chain) :
              o.chain[i].index = 0 => IsGenesis(o.chain[i])
        /\ \A f \in DOMAIN fdir : fdir[f].index = 0 => IsGenesis(fdir[f])
        /\ \A f \in DOMAIN adir : adir[f].index = 0 => IsGenesis(adir[f])
        /\ \A f \in DOMAIN idir : idir[f].index = 0 => IsGenesis(idir[f])

\* a load under `name` from directory `dir`, leaving `dir2` and `chain2`:
\* one genesis block when `dir` held no block of that name, no block otherwise
GenesisOrNothing(dir, dir2, chain2, name) ==
    IF Listing(dir, name) = {}
    THEN /\ Len(chain2) = 1 /\ IsGenesis(chain2[1])
         /\ DOMAIN dir2 = DOMAIN dir \cup {BlockFile(name, 0)}
         /\ IsGenesis(dir2[BlockFile(name, 0)])
    ELSE dir2 = dir

\* C12: opening or reloading a chain name with no persisted blocks creates
\* exactly one block, with index 0, proof 0, prev_hash "0" and an empty
\* payload; with persisted blocks it creates none; and every block of index 0
\* that the program produced has these fields.
C12_Genesis ==
    [][/\ (ret'.op \in {"open", "load_chain", "load_backup"} /\ Succeeded(ret'))
            => GenesisOrNothing(fdir, fdir', fb'.chain, fb'.blockchain_name)
       /\ (ret'.op = "open" /\ Succeeded(ret'))
            => /\ GenesisOrNothing(adir, adir', ab'.chain, ab'.blockchain_name)
               /\ GenesisOrNothing(idir, idir', ib'.chain, ib'.blockchain_name)
       /\ GenesisFields'
      ]_vars

\* the name under which the load reported by r read the file chain, o being
\* the file chain object before the load
LoadedName(r, o) ==
    IF r.op = "load_chain" THEN o.blockchain_name
    ELSE IF r.args = <<>> THEN DEFAULT_NAME
    ELSE r.args[1]

\* the persisted blocks `files`, in index order, keep the chain invariant:
\* indices 0..N-1 with none missing, and every adjacent pair valid
ValidBlocks(dir, files) ==
    /\ \A i \in 1..Len(files) : dir[files[i]].index = i - 1
    /\ \A i \in 2..Len(files) : check_validity(dir[files[i]], dir[files[i - 1]])

PersistedValid(dir, name) == ValidBlocks(dir, sorted_by_index(Listing(dir, name)))

\* C13: a load of persisted blocks that violate the chain invariant (a
\* missing index in 0..N-1, the genesis included, a prev_hash that is not the
\* digest of the preceding block, a proof that fails admission) fails with
\* the corrupt-chain error.
C13_CorruptLoad ==
    [][(/\ ret'.op \in (Loads \cup {"load_backup"})
        /\ ~PersistedValid(fdir, LoadedName(ret', fb)))
          => ret'.val = Raise("ValueError")
      ]_vars

\* the in-memory tail of chain object o is not the persisted tail of its name
TailDiverged(dir, o) ==
    LET files == sorted_by_index(Listing(dir, o.blockchain_name))
    IN  \/ files = <<>>
        \/ dir[files[Len(files)]] # o.chain[Len(o.chain)]

\* C14: a seal attempted while the in-memory tail and the persisted tail have
\* diverged fails with the index-mismatch error, adds no block in memory and
\* writes nothing.
C14_SealOnDivergedTail ==
    [][(ret'.op = "add_file" /\ TailDiverged(fdir, fb))
          => /\ ret'.val = Raise("ValueError")
             /\ fb'.chain = fb.chain
             /\ fdir' = fdir
      ]_vars

\* the persisted blocks of a name, in index order
PersistedChain(dir, name) ==
    LET files == sorted_by_index(Listing(dir, name))
    IN  [i \in 1..Len(files) |-> dir[files[i]]]

\* C15: the listing of the content chain has one entry for every file record
\* sealed into the chain, oldest first and unmerged, and no entry for a
\* record of another kind; this also holds after a reload from storage.
C15_ListFiles ==
    (up /\ tampered = {})
      => get_file_list(fb) =
           get_file_list([chain |-> PersistedChain(fdir, fb.blockchain_name)])

\* C16: every update of the index chain seals exactly one block, whose
\* payload is exactly one snapshot record with the listing passed, earlier
\* snapshots not being merged in; get_latest_index returns the payload of the
\* last block, which is empty exactly when the chain is the genesis block
\* alone.
C16_IndexChain ==
    [][/\ (ret'.op = "update_index" /\ Succeeded(ret'))
            => /\ AppendOnly(ib.chain, ib'.chain)
               /\ LET f == BlockFile(ib'.blockchain_name, Last(ib'.chain).index)
                  IN  /\ DOMAIN idir' = DOMAIN idir \cup {f}
                      /\ idir'[f] = Last(ib'.chain)
                      /\ \A g \in DOMAIN idir \ {f} : idir'[g] = idir[g]
               /\ Len(Last(ib'.chain).data) = 1
               /\ Last(ib'.chain).data[1].file_list = get_file_list(fb)
               /\ fb' = fb /\ ab' = ab
       /\ up' => /\ get_latest_index(ib') = ib'.chain[Len(ib'.chain)].data
                 /\ (get_latest_index(ib') = <<>>)
                       <=> (Len(ib'.chain) = 1 /\ IsGenesis(ib'.chain[1]))
      ]_vars

\* a snapshot was sealed after an earlier one
C16_Witness ==
    /\ ret.op = "update_index" /\ Succeeded(ret)
    /\ Len(ib.chain) = 3
    /\ Len(ib.chain[2].data) = 1
    /\ Len(ib.chain[3].data[1].file_list) = 1

\* the persisted block of index k of a name, or its link to the persisted
\* block before or after it, fails check_validity
WindowBroken(dir, name, k) ==
    LET at(n) == BlockFile(name, n)
    IN  /\ at(k) \in DOMAIN dir
        /\ \/ at(k - 1) \in DOMAIN dir /\ ~check_validity(dir[at(k)], dir[at(k - 1)])
           \/ at(k + 1) \in DOMAIN dir /\ ~check_validity(dir[at(k + 1)], dir[at(k)])

\* C17: get_file_content returns no content when the persisted block that
\* file_index names for the path, or its link to a persisted neighbour, fails
\* check_validity at the time of the read.
C17_ReadBrokenWindow ==
    [][(/\ ret'.op = "get_file_content"
        /\ ret'.args[1] \in DOMAIN fb.file_index
        /\ WindowBroken(fdir, fb.blockchain_name, fb.file_index[ret'.args[1]]))
          => ret'.val.kind # "value"
      ]_vars

\* a path that is never stored
ABSENT_PATH == <<"absent">>

\* every record of file_name in the chain of o has an owner other than `owner`
NotOwner(o, file_name, owner) ==
    \A i \in 1..Len(o.chain) : \A j \in 1..Len(o.chain[i].data) :
        LET data == o.chain[i].data[j]
        IN  (IsFileRecord(data) /\ data.file_name = file_name) => data.owner # owner

\* C18: a read refused by the owner/access check (the path is in the chain,
\* the caller owns no record of it and the read is not a shared one) answers
\* otherwise than a read of a path absent from the chain.
C18_Unauthorized ==
    [][(/\ ret'.op = "get_file_content"
        /\ ret'.args[1] \in DOMAIN fb.file_index
        /\ ~ret'.args[3]
        /\ NotOwner(fb, ret'.args[1], ret'.args[2]))
          => ret'.val # get_file_content(World, ABSENT_PATH, ret'.args[2],
                                         ret'.args[3], <<>>)
      ]_vars

\* the block at position i (from 1) of the chain has index i - 1
Positional(chain) == \A i \in 1..Len(chain) : chain[i].index = i - 1

\* C19: in each of the three in-memory chains the block at position i has
\* index i, also after the name was changed by backup or load_backup and
\* after a reload from storage.
C19_PositionIsIndex ==
    (up /\ tampered = {})
      => Positional(fb.chain) /\ Positional(ab.chain) /\ Positional(ib.chain)

\* C20: after put_file, backup, get_all and load_backup, file_index is what
\* a replay of the content chain then in memory gives.
C20_FileIndexReplay ==
    (/\ up /\ tampered = {}
     /\ ret.op \in {"add_file", "backup", "load_chain", "load_backup"}
     /\ Succeeded(ret))
      => fb.file_index = update_file_index(fb).file_index

\* every block of the in-memory chain of object k has an entry in chunk_index
\* that load_block can open and that holds the persisted block of that index
Locatable(w, k) ==
    \A i \in 1..Len(w[k].chain) :
        LET index == w[k].chain[i].index
        IN  /\ index \in DOMAIN w[k].chunk_index
            /\ block_exists(w, k, w[k].chunk_index[index])
            /\ load_block(w, k, w[k].chunk_index[index]).index = index

\* C21: after any sequence of open, seal and reload, chunk_index has for
\* every block of each in-memory chain an entry that load_block opens and
\* that gives the persisted block of that index, whether the entry was
\* written by load_chain or by save_block.
C21_LocationIndex ==
    (up /\ tampered = {})
      => Locatable(World, "fb") /\ Locatable(World, "ab") /\ Locatable(World, "ib")

\* the contents stored for file_name in the in-memory block of index k
ContentsIn(o, file_name, k) ==
    {fromhex(o.chain[i].data[j].file_content) :
        <<i, j>> \in {p \in (1..Len(o.chain)) \X (1..1) :
                        /\ o.chain[p[1]].index = k
                        /\ Len(o.chain[p[1]].data) = 1
                        /\ IsFileRecord(o.chain[p[1]].data[1])
                        /\ o.chain[p[1]].data[1].file_name = file_name}}

\* C22: when get_file_content returns content for a path, it is the content
\* of the record in the block that file_index names for the path (the most
\* recent record), never that of an older record in a neighbouring block,
\* whatever the order in which the window's blocks are loaded.
C22_LatestVersion ==
    [][(/\ ret'.op = "get_file_content"
        /\ tampered = {}
        /\ ret'.val.kind = "value")
          => ret'.val.v \in ContentsIn(fb, ret'.args[1], fb.file_index[ret'.args[1]])
      ]_vars

\* every block of the in-memory chain of o is the block persisted under its
\* index
AllPersisted(dir, o) ==
    \A i \in 1..Len(o.chain) :
        LET f == BlockFile(o.blockchain_name, o.chain[i].index)
        IN  f \in DOMAIN dir /\ dir[f] = o.chain[i]

\* C23: when the write of the new block fails during a seal, the error
\* reaches the caller, the in-memory chain holds no block that is absent
\* from storage, and the pending record is still in the pending buffer.
C23_SealWriteFails ==
    [][(/\ ret'.op = "add_file"
        /\ tampered = {}
        /\ AllPersisted(fdir, fb)
        /\ fdir' = fdir
        /\ ret'.val = Raise("OSError"))
          => /\ AllPersisted(fdir', fb')
             /\ fb'.current_data # <<>>
      ]_vars

\* C24: between operations, whether the last one returned or raised, the
\* pending buffer (current_data) of each of the three chains is empty.
C24_PendingEmpty ==
    up => /\ fb.current_data = <<>>
          /\ ab.current_data = <<>>
          /\ ib.current_data = <<>>

\* block index i has an entry in chunk_index and a block file in storage
Stored(dir, o, i) ==
    i \in DOMAIN o.chunk_index /\ BlockFile(o.blockchain_name, i) \in DOMAIN dir

\* the persisted block of index i
Persisted(dir, o, i) == dir[BlockFile(o.blockchain_name, i)]

\* the persisted target block exists and is linked to the persisted blocks
\* before and after it, where they exist
WindowHolds(dir, o, target) ==
    /\ Stored(dir, o, target)
    /\ Stored(dir, o, target - 1)
         => check_validity(Persisted(dir, o, target), Persisted(dir, o, target - 1))
    /\ Stored(dir, o, target + 1)
         => check_validity(Persisted(dir, o, target + 1), Persisted(dir, o, target))

\* C25: the windowed check of a target index reads at most three blocks and
\* returns true exactly when the target block is stored and check_validity
\* holds for the pairs (target, target - 1) and (target + 1, target) that
\* exist; in particular false for an index without location entry and true
\* for a chain that is the genesis block alone.
C25_VerifyWindow ==
    [][(ret'.op = "verify_chain_integrity" /\ variant = "cli")
          => /\ Cardinality(blocks_to_load(fb, ret'.args[1])) <= 3
             /\ ret'.val = Val(WindowHolds(fdir, fb, ret'.args[1]))
      ]_vars

\* apart from the link of block k + 1 to block k, every pair of neighbouring
\* persisted blocks passes check_validity
ValidButFor(dir, o, k) ==
    \A i \in DOMAIN o.chunk_index :
        (i # k /\ Stored(dir, o, i) /\ Stored(dir, o, i + 1))
          => check_validity(Persisted(dir, o, i + 1), Persisted(dir, o, i))

\* C26: right after the payload of persisted block k was changed out-of-band
\* in a chain that is valid otherwise, the windowed check of an existing
\* block j returns true when |j - k| >= 2 and, when block k + 1 exists, false
\* for j = k and for j = k + 1.
C26_WindowTradeoff ==
    [][(/\ ret.op = "tamper"
        /\ ret'.op = "verify_chain_integrity" /\ variant = "cli"
        /\ Stored(fdir, fb, ret'.args[1])
        /\ ValidButFor(fdir, fb, ret.args[1]))
          => LET j == ret'.args[1]
                 k == ret.args[1]
             IN  /\ (j - k >= 2 \/ k - j >= 2) => ret'.val = Val(TRUE)
                 /\ ((j = k \/ j = k + 1) /\ Stored(fdir, fb, k + 1))
                       => ret'.val = Val(FALSE)
      ]_vars

\* C27: verify_chain_integrity() of main.py returns true exactly when, for
\* every pair of neighbours of the in-memory chain, the index grows by one,
\* prev_hash is the digest of the predecessor and the admission predicate
\* holds for (block.proof_no, prev_block.proof_no); so it returns true for a
\* chain of no or one block, whatever the first block is, and it changes
\* nothing.
C27_VerifyFull ==
    [][(ret'.op = "verify_chain_integrity" /\ variant = "gui")
          => /\ ret'.val = Val(Linked(fb.chain))
             /\ Len(fb.chain) <= 1 => ret'.val = Val(TRUE)
             /\ fb' = fb /\ fdir' = fdir
      ]_vars

\* the check refused a chain of three blocks whose first pair is linked
C27_Witness ==
    /\ ret.op = "verify_chain_integrity" /\ variant = "gui"
    /\ Len(fb.chain) = 3
    /\ check_validity(fb.chain[2], fb.chain[1])
    /\ ret.val = Val(FALSE)

\* the access chain object that AccessBlockchain(blockchain_name = the present
\* name) would be if it were constructed now
ReopenedAccess(w) ==
    AccessBlockchain_init([w EXCEPT !.ab = NoObject], w.ab.blockchain_name).ab

\* C28: every block sealed by grant_access is persisted, so an access chain
\* discarded and constructed again from storage equals the chain in memory
\* (and answers every has_access query alike), and the block files and the
\* snapshot file of a name describe the same chain.
C28_AccessPersistence ==
    up => /\ ReopenedAccess(World).chain = ab.chain
          /\ ab.blockchain_name \in DOMAIN afile
               => afile[ab.blockchain_name] = PersistedChain(adir, ab.blockchain_name)

\* every block file of directory a is in directory b with the same content
Kept(a, b) == \A f \in DOMAIN a : f \in DOMAIN b /\ b[f] = a[f]

\* C29: no operation of the program (open, seal, reload, backup or
\* load_backup under any name) writes to a block file that already holds a
\* block: every persisted block keeps the content it was first written with.
C29_NeverOverwritten ==
    [][ret'.op # "tamper"
          => Kept(fdir, fdir') /\ Kept(adir, adir') /\ Kept(idir, idir')
      ]_vars

\* the other writer
Other(k) == IF k = "fb" THEN "ob" ELSE "fb"

\* both writers sealed once from the same chain: their chains agree up to the
\* last block, which is each writer's own
BothSealed ==
    /\ Len(fb.chain) = Len(ob.chain) /\ Len(fb.chain) > 1
    /\ SubSeq(fb.chain, 1, Len(fb.chain) - 1) = SubSeq(ob.chain, 1, Len(ob.chain) - 1)
    /\ latest_block(fb) # latest_block(ob)

\* C30: two Blockchain objects are open on the same blockchain_name and
\* storage_dir.  A seal by either of them returns without raising and gives
\* the new block the index len(chain) of the sealing writer's own chain, so
\* two writers whose chains have the same tail seal the same index; the block
\* file of that index holds the sealing writer's block afterwards, and where
\* the other writer had sealed that index before, its block is no longer in
\* the storage and no block file was added: the later write replaced it.
C30_TwoWriterRace ==
    [][\A k \in Writers :
         (ret'.op = "seal" /\ ret'.args[1] = k /\ fb.chain # <<>> /\ ob.chain # <<>>) =>
         LET index == Len(Object(k).chain)
             name == BlockFile(DEFAULT_NAME, index)
         IN /\ Succeeded(ret')
            /\ latest_block(Object(k)').index = index
            /\ Object(k)'.chain = Append(Object(k).chain, latest_block(Object(k)'))
            /\ Object(Other(k))' = Object(Other(k))
            /\ fdir'[name] = latest_block(Object(k)')
            /\ \A f \in DOMAIN fdir' \ {name} : f \in DOMAIN fdir /\ fdir'[f] = fdir[f]
            /\ (Len(Object(Other(k)).chain) = index + 1
                  /\ SubSeq(Object(Other(k)).chain, 1, index) = Object(k).chain
                  /\ fdir[name] = latest_block(Object(Other(k))))
               => /\ BothSealed'
                  /\ latest_block(fb').index = latest_block(ob').index
                  /\ DOMAIN fdir' = DOMAIN fdir
                  /\ \A f \in DOMAIN fdir' : fdir'[f] # latest_block(Object(Other(k)))
       ]_vars

\* both writers sealed the same index from the same chain, the second seal
\* returned, and the block file holds the second writer's block only
C30_Witness ==
    /\ ret.op = "seal" /\ Succeeded(ret)
    /\ BothSealed
    /\ latest_block(fb).index = latest_block(ob).index
    /\ fdir[BlockFile(DEFAULT_NAME, latest_block(fb).index)] = latest_block(Object(ret.args[1]))
    /\ \A f \in DOMAIN fdir : fdir[f] # latest_block(Object(Other(ret.args[1])))

\* some candidate up to MaxCandidate is admitted next to last_proof
Admissible(last_proof) == \E p \in 0..MaxCandidate : verifying_proof(p, last_proof)

\* the search starts at 0, moves from a candidate that is not admitted to the
\* next one, and leaves the loop at an admitted candidate only
InOrder ==
    /\ (search.pc # "loop" /\ search'.pc = "loop") => search'.proof_no = 0
    /\ (search.pc = "loop" /\ search'.pc = "loop")
          => /\ ~verifying_proof(search.proof_no, search.last_proof)
             /\ search'.proof_no = search.proof_no + 1
             /\ search'.last_proof = search.last_proof
    /\ (search.pc = "loop" /\ search'.pc # "loop")
          => /\ search'.pc = "found"
             /\ search'.proof_no = search.proof_no
             /\ verifying_proof(search.proof_no, search.last_proof)
    /\ (search.pc = "loop" /\ ~Admissible(search.last_proof)) => search'.pc = "loop"

\* C31: proof_of_work tries the candidates 0, 1, 2, ... in this order and
\* stops at nothing but an admitted candidate: a search for which no candidate
\* is admitted never returns, a search for which one is admitted returns the
\* first such candidate, and a seal that entered the search then completes
\* with its block appended.
C31_SearchTerminates ==
    /\ [][InOrder]_vars
    /\ [](search.pc = "found"
            => /\ verifying_proof(search.proof_no, search.last_proof)
               /\ \A q \in 0..(search.proof_no - 1) :
                      ~verifying_proof(q, search.last_proof))
    /\ (search.pc = "loop" /\ Admissible(search.last_proof)) ~> (search.pc = "found")
    /\ (search.pc = "found") ~> (search.pc = "idle")
    /\ (search.pc = "loop" /\ search.caller = "seal" /\ Admissible(search.last_proof))
          ~> (search.pc = "idle" /\ ret.op = "seal" /\ fb.current_data = <<>>)

\* a seal went through a search of more than MaxCandidate \div 2 candidates on
\* a chain that it had itself extended before, and returned
C31_Witness ==
    /\ search = Idle
    /\ ret.op = "seal" /\ Succeeded(ret)
    /\ Len(fb.chain) = 3
    /\ latest_block(fb).proof_no = ret.args[2]
    /\ ret.args[2] > MaxCandidate \div 2
    /\ verifying_proof(ret.args[2], fb.chain[2].proof_no)

\* C32: within a running process, has_access(path, u) turns from false to
\* true only by an add_file of a path of that name for the owner u, or by a
\* grant_permission that names u as grantee and is given by a user who had
\* access to the path before.
C32_NoSelfGrant ==
    [][\A p \in {<<"f.txt">>, <<"d", "f.txt">>}, u \in Users :
         (up /\ up' /\ ~has_access(ab, p, u) /\ has_access(ab', p, u))
         => \/ /\ ret'.op = "add_file"
               /\ basename(ret'.args[1]) = basename(p)
               /\ ret'.args[4] = u
            \/ /\ ret'.op = "grant_permission"
               /\ basename(ret'.args[2]) = basename(p)
               /\ ret'.args[3] = u
               /\ has_access(ab, p, ret'.args[1])
      ]_vars

\* the paths and users that has_access is asked about
AskedPaths == {<<"f.txt">>, <<".", "f.txt">>, <<"d", "f.txt">>}
AskedUsers == Users \cup {"carol"}

\* C33: while the process runs (the AccessBlockchain object is the same
\* before and after the step), no operation -- grant, add_file, backup,
\* load_backup, a change of blockchain_name, reload, update_index -- takes a
\* has_access(path, u) that is true back to false.
C33_NeverRevoked ==
    [][\A p \in AskedPaths, u \in AskedUsers :
         (up /\ up' /\ has_access(ab, p, u)) => has_access(ab', p, u)
      ]_vars

\* alice had access under one name, the process went on under another name
\* by a backup or a load_backup, and she still has access
C33_Witness ==
    /\ up
    /\ ret.op \in {"backup", "load_backup"}
    /\ ab.blockchain_name # ab.storage_file
    /\ has_access(ab, <<"f.txt">>, "alice")
    /\ ~has_access(ab, <<"f.txt">>, "bob")

\* C34: a backup that follows a backup under the same name of the same
\* files (same paths, dates and contents) finds every file in file_index and
\* seals nothing: no block file appears or changes in the three storage
\* directories and the access and index chains keep their length.
C34_BackupSkips ==
    [][(/\ ret.op = "backup" /\ Succeeded(ret)
        /\ ret'.op = "backup" /\ ret'.args = ret.args
        /\ ret.args[2] # <<>>)
         => /\ fdir' = fdir /\ adir' = adir /\ idir' = idir
            /\ Len(ab'.chain) = Len(ab.chain)
            /\ Len(ib'.chain) = Len(ib.chain)
      ]_vars

=============================================================================
